---- MODULE Spec2Model ----
(***************************************************************************)
(* A model of hibp (src/main.go): the cycle driver run(), the prefix batch *)
(* controller getChunk() with its errgroup of at most `workers` goroutines,*)
(* the record fetcher getOne() and the archive builder tar().              *)
(*                                                                         *)
(* Bytes are kept as runs: a slot or the archive buffer holds a sequence   *)
(* of items, each item standing for a run of bytes (a 512-byte tar header, *)
(* n bytes of the origin's body for a key, or n zero bytes).               *)
(***************************************************************************)
EXTENDS Integers, Sequences, FiniteSets, TLC

\* ---------------------------------------------------------------- bounds
\* The last suffix of a prefix; 0xfff in src/main.go:113, scaled down.
MaxSuffix == 2
\* errgroup's limit; 64 in src/main.go:22, scaled down with MaxSuffix.
workers == 2
\* The largest -p value tried against an arbitrary origin.
MaxPrefixes == 2

\* ------------------------------------------------------- program constants
SuffixSpan == 4096
BlockSize == 512
TrailerSize == 1024
SlotCap == 48000
TarBufCap == 160000000
Mode == 384
StatusOK == 200
MinRead == 512
SynthSize == 32000
KeySpacePrefixes == 256

Suffixes == 0..MaxSuffix
NoErr == [cause |-> "nil"]

VARIABLES
    prefixes,   \* the -p flag
    manual,     \* the -manual flag
    origin,     \* which origin answers: "any" or "synthetic"
    pc,         \* the main goroutine's position
    i,          \* run's loop variable: the prefix
    j,          \* getChunk's loop variable: the next suffix to dispatch
    task,       \* per suffix, the goroutine eg.Go started for it
    sem,        \* errgroup: the number of tokens in its semaphore
    egErr,      \* errgroup: the first error (errOnce)
    bufs,       \* d.bufs: per suffix, [data, cap]
    tarBuf,     \* d.tarBuf: [data, cap]
    runErr,     \* what run returned
    tarred,     \* history: the prefixes tar() was called with
    log,        \* history: the keys requested from the origin
    failed,     \* history: the keys whose fetch returned an error
    resets,     \* history: how often run has reset the arena
    gcs,        \* history: how often run has called runtime.GC
    calls       \* history: getChunk's calls of getOne, counted per (key, slot)

vars == <<prefixes, manual, origin, pc, i, j, task, sem, egErr, bufs, tarBuf,
          runErr, tarred, log, failed, resets, gcs, calls>>

\* ------------------------------------------------------------- formatting
\* The hexadecimal digits of n >= 0, most significant first.
RECURSIVE HexDigits(_)
HexDigits(n) ==
    IF n < 16 THEN <<n>> ELSE Append(HexDigits(n \div 16), n % 16)

\* Left-pad a digit string with zeros to at least w digits.
RECURSIVE ZeroPad(_, _)
ZeroPad(s, w) == IF Len(s) >= w THEN s ELSE ZeroPad(<<0>> \o s, w)

\* fmt.Sprintf("%0<w>x", n): at least w digits, never truncated.
Sprintf0x(w, n) == ZeroPad(HexDigits(n), w)

\* The number a hexadecimal digit string reads as.
RECURSIVE ParseHex(_)
ParseHex(s) ==
    IF Len(s) = 0 THEN 0
    ELSE 16 * ParseHex(SubSeq(s, 1, Len(s) - 1)) + s[Len(s)]

\* getChunk: five := two*0x1000 + three
Five(two, three) == two * SuffixSpan + three

\* ---------------------------------------------------------------- buffers
RECURSIVE ByteLen(_)
\* The number of bytes a sequence of runs stands for.
ByteLen(items) ==
    IF Len(items) = 0 THEN 0
    ELSE (IF Head(items).t = "hdr" THEN BlockSize ELSE Head(items).n)
         + ByteLen(Tail(items))

\* bytes.NewBuffer(make([]byte, 0, c))
NewBuffer(c) == [data |-> <<>>, cap |-> c]

\* (*bytes.Buffer).Len
BufLen(b) == ByteLen(b.data)

\* Mutant: a reset that leaves the bytes in place.
BufResetKeepsData(b) == b

\* Mutant: a reset that drops the storage with the bytes.
BufResetDropsStorage(b) == [data |-> <<>>, cap |-> 0]

\* (*bytes.Buffer).Reset: the length goes to zero, the storage is kept.
BufReset(b) == [data |-> <<>>, cap |-> b.cap]

Max(a, b) == IF a >= b THEN a ELSE b

\* The capacity after making room for n more bytes behind len bytes
\* (bytes.Buffer.grow: reslice if it fits, else at least double).
CapFor(cap, len, n) == IF len + n <= cap THEN cap ELSE Max(2 * cap, len + n)

\* (*bytes.Buffer).Write of the runs in `items`.
BufWrite(b, items) ==
    IF ByteLen(items) = 0 THEN b
    ELSE [data |-> b.data \o items,
          cap |-> CapFor(b.cap, BufLen(b), ByteLen(items))]

RECURSIVE CapAfterReadFrom(_, _)
\* (*bytes.Buffer).ReadFrom keeps MinRead bytes free before every Read, the
\* one that meets the end of the body included.
CapAfterReadFrom(cap, len) ==
    IF len + MinRead <= cap THEN cap
    ELSE CapAfterReadFrom(Max(2 * cap, cap + MinRead), len)

\* Mutant: a copy that writes from the buffer's start, over what it holds.
BufReadFromOverwrites(b, key, size, n) ==
    [data |-> IF n = 0 THEN <<>>
              ELSE <<[t |-> "data", key |-> key, size |-> size, n |-> n]>>,
     cap |-> CapAfterReadFrom(b.cap, n)]

\* io.Copy(buf, body) having read n bytes of the body of `key`, whose full
\* size is `size`: the bytes are appended to what the buffer holds.
BufReadFrom(b, key, size, n) ==
    [data |-> IF n = 0 THEN b.data
              ELSE Append(b.data, [t |-> "data", key |-> key, size |-> size, n |-> n]),
     cap |-> CapAfterReadFrom(b.cap, BufLen(b) + n)]

\* (*bytes.Buffer).Grow(n): room for n more bytes, without a write.
BufGrow(b, n) == [data |-> b.data, cap |-> CapFor(b.cap, BufLen(b), n)]

\* ----------------------------------------------------------------- origin
\* The body sizes an arbitrary origin answers with.
BodySizes == {0, 1, BlockSize}

\* What one GET of `key` can come to.  transport: client.Do fails;
\* status: an answer other than 200; ok: the whole body of `size` bytes
\* arrives; cut: the connection breaks after n < size bytes of the body.
\* The synthetic origin is the file server over the generator's files: it
\* has one file of SynthSize bytes per key of the KeySpacePrefixes prefixes.
Responses(key) ==
    IF origin = "synthetic"
    THEN IF key < KeySpacePrefixes * SuffixSpan
         THEN {[kind |-> "ok", code |-> StatusOK, size |-> SynthSize, n |-> SynthSize]}
         ELSE {[kind |-> "status", code |-> 404, size |-> 0, n |-> 0]}
    ELSE {[kind |-> "transport", code |-> 0, size |-> 0, n |-> 0],
          [kind |-> "status", code |-> 500, size |-> 0, n |-> 0],
          [kind |-> "cut", code |-> StatusOK, size |-> BlockSize, n |-> 1]}
         \cup {[kind |-> "ok", code |-> StatusOK, size |-> sz, n |-> sz] : sz \in BodySizes}

\* getOne's return value for a response.
GetOneErr(resp) ==
    IF resp.kind = "transport" THEN [cause |-> "transport"]
    ELSE IF resp.code # StatusOK THEN [cause |-> "status"]
    ELSE IF resp.n < resp.size THEN [cause |-> "body"]
    ELSE NoErr

\* getOne's effect on the slot: io.Copy runs only behind a 200.
GetOneBuf(b, key, resp) ==
    IF resp.kind # "transport" /\ resp.code = StatusOK
    THEN BufReadFrom(b, key, resp.size, resp.n)
    ELSE b

\* The goroutine's wrapping of getOne's error (src/main.go:118).
WrapFetchErr(five, e) ==
    [cause |-> e.cause, key |-> Sprintf0x(2, five)]

\* run's wrapping of getChunk's error (src/main.go:95).
WrapChunkErr(two, e) ==
    [cause |-> e.cause, key |-> e.key, chunkPrefix |-> Sprintf0x(2, two)]

\* -------------------------------------------------------------------- tar
\* tar(): the size computed before writing.
TarNeed(bs) ==
    LET RECURSIVE Sum(_)
        Sum(k) == IF k > MaxSuffix THEN 0
                  ELSE BlockSize + BufLen(bs[k]) + Sum(k + 1)
    IN Sum(0) + TrailerSize

\* tar(): grow the archive buffer by the difference, if any.
TarGrow(tb, need) ==
    IF need - tb.cap > 0 THEN BufGrow(tb, need - tb.cap) ELSE tb

\* Mutant: a writer that never pads a body to the block size.
TarPadNone(size) == 0

\* The zero bytes tar.Writer owes after a body of `size` bytes.
TarPad(size) == (BlockSize - (size % BlockSize)) % BlockSize

\* A run of n zero bytes, or nothing.
Zeros(n) == IF n = 0 THEN <<>> ELSE <<[t |-> "zero", n |-> n]>>

\* The header tar() fills in for slot `three` of prefix `two`.
TarHeader(two, three, b) ==
    [t |-> "hdr", name |-> Sprintf0x(5, Five(two, three)),
     mode |-> Mode, size |-> BufLen(b)]

\* tw.WriteHeader(&hdr); tw.Write(buf.Bytes()), with the padding the writer
\* flushes before the next header or on Close.
TarEntry(two, three, b) ==
    <<TarHeader(two, three, b)>> \o b.data \o Zeros(TarPad(BufLen(b)))

\* Everything tar() writes: the entries in slot order, then tw.Close().
TarBytes(two, bs) ==
    LET RECURSIVE Entries(_)
        Entries(k) == IF k > MaxSuffix THEN <<>>
                      ELSE TarEntry(two, k, bs[k]) \o Entries(k + 1)
    IN Entries(0) \o Zeros(TrailerSize)

\* ------------------------------------------------------------- tar reader
\* A standard reader's view of an archive (archive/tar.Reader): per entry
\* the header's name, mode and size and the body read behind it.
RoundUp(n) == ((n + BlockSize - 1) \div BlockSize) * BlockSize

\* What a reader yields where the bytes are no archive.
Malformed == [name |-> <<>>, mode |-> -1, size |-> -1, body |-> <<>>]

\* The length of the shortest prefix of `items` made of body runs holding
\* exactly `size` bytes, or -1.
RECURSIVE BodyRuns(_, _)
BodyRuns(items, size) ==
    IF size = 0 THEN 0
    ELSE IF Len(items) = 0 \/ Head(items).t # "data" \/ Head(items).n > size THEN -1
    ELSE LET r == BodyRuns(Tail(items), size - Head(items).n)
         IN IF r < 0 THEN -1 ELSE r + 1

RECURSIVE Untar(_)
Untar(items) ==
    IF Len(items) = 0 THEN <<Malformed>>
    ELSE IF Head(items).t = "zero"
    THEN IF Head(items).n >= TrailerSize THEN <<>> ELSE <<Malformed>>
    ELSE IF Head(items).t # "hdr" THEN <<Malformed>>
    ELSE LET hdr == Head(items)
             k == BodyRuns(Tail(items), hdr.size)
             pad == RoundUp(hdr.size) - hdr.size
         IN IF k < 0 THEN <<Malformed>>
            ELSE LET body == SubSeq(items, 2, k + 1)
                     rest == SubSeq(items, k + 2, Len(items))
                     padOk == pad = 0 \/ (Len(rest) > 0 /\ rest[1] = [t |-> "zero", n |-> pad])
                     after == IF pad = 0 THEN rest ELSE Tail(rest)
                 IN IF ~padOk THEN <<Malformed>>
                    ELSE <<[name |-> hdr.name, mode |-> hdr.mode,
                            size |-> hdr.size, body |-> body]>> \o Untar(after)

\* ------------------------------------------------------------------- main
\* The command lines tried: -p against an arbitrary origin, and the ends of
\* the key space against the synthetic one.
Flags ==
    {[p |-> n, o |-> "any"] : n \in 0..MaxPrefixes}
    \cup {[p |-> n, o |-> "synthetic"] : n \in {KeySpacePrefixes, KeySpacePrefixes + 1}}

\* A goroutine of the errgroup: not started, inside getOne, back from getOne
\* with its result, or gone (its token released).
Idle == [st |-> "idle", err |-> NoErr]

Init ==
    /\ \E f \in Flags : prefixes = f.p /\ origin = f.o
    /\ manual \in BOOLEAN
    /\ pc = "main"
    /\ i = 0
    /\ j = 0
    /\ task = [t \in Suffixes |-> Idle]
    /\ sem = 0
    /\ egErr = NoErr
    /\ bufs = [t \in Suffixes |-> NewBuffer(0)]
    /\ tarBuf = NewBuffer(0)
    /\ runErr = NoErr
    /\ tarred = <<>>
    /\ log = {}
    /\ failed = {}
    /\ resets = 0
    /\ gcs = 0
    /\ calls = <<>>

\* main's assertion on -p (src/main.go:40).
FlagsOk(p) == p > 0

\* main: the assertion fails and the process panics.
MainPanic ==
    /\ pc = "main"
    /\ ~FlagsOk(prefixes)
    /\ pc' = "panic"
    /\ UNCHANGED <<prefixes, manual, origin, i, j, task, sem, egErr, bufs,
                   tarBuf, runErr, tarred, log, failed,
                   resets, gcs, calls>>

\* main: the assertion holds; the arena and the archive buffer are
\* allocated and run() is entered.
MainStart ==
    /\ pc = "main"
    /\ FlagsOk(prefixes)
    /\ bufs' = [t \in Suffixes |-> NewBuffer(SlotCap)]
    /\ tarBuf' = NewBuffer(TarBufCap)
    /\ pc' = "run"
    /\ UNCHANGED <<prefixes, manual, origin, i, j, task, sem, egErr, runErr,
                   tarred, log, failed,
                   resets, gcs, calls>>

\* -------------------------------------------------------------------- run
\* Mutant: a loop that runs once too often.
LoopCondInclusive(n, p) == n <= p

\* run's loop condition (src/main.go:91).
LoopCond(n, p) == n < p

\* run: the loop is over and run returns nil.
RunDone ==
    /\ pc = "run"
    /\ ~LoopCond(i, prefixes)
    /\ pc' = "done"
    /\ UNCHANGED <<prefixes, manual, origin, i, j, task, sem, egErr, bufs,
                   tarBuf, runErr, tarred, log, failed,
                   resets, gcs, calls>>

\* run enters getChunk(i): a fresh errgroup with its limit set.
GetChunk ==
    /\ pc = "run"
    /\ LoopCond(i, prefixes)
    /\ j' = 0
    /\ task' = [t \in Suffixes |-> Idle]
    /\ sem' = 0
    /\ egErr' = NoErr
    /\ calls' = <<>>
    /\ pc' = "go"
    /\ UNCHANGED <<prefixes, manual, origin, i, bufs, tarBuf, runErr, tarred,
                   log, failed,
                   resets, gcs>>

\* Mutant: an errgroup without a limit.
GoAdmitsAlways(n) == TRUE

\* eg.Go blocks while the semaphore is full (eg.SetLimit(workers)).
GoAdmits(n) == n < workers

\* Mutant: a loop that breaks once the errgroup holds an error.
AfterGoBreaksOnErr(n, e) == IF n = MaxSuffix \/ e # NoErr THEN "wait" ELSE "go"

\* getChunk's loop goes on to the last suffix whatever the errgroup holds:
\* the Group has no context, and an error cancels nothing.
AfterGo(n, e) == IF n = MaxSuffix THEN "wait" ELSE "go"

\* Mutant: every fetch writes the first slot.
SlotShared(three) == 0

\* getOne: the slot a fetch copies into, d.bufs[three].
Slot(three) == three

\* One more call of getOne with the arguments c.
Called(cs, c) ==
    IF c \in DOMAIN cs THEN [cs EXCEPT ![c] = @ + 1] ELSE cs @@ (c :> 1)

\* getChunk's loop: eg.Go takes a token and starts the goroutine for suffix
\* j, which calls getOne and sends the request for its key.
Go ==
    /\ pc = "go"
    /\ j <= MaxSuffix
    /\ GoAdmits(sem)
    /\ sem' = sem + 1
    /\ task' = [task EXCEPT ![j] = [st |-> "fetching", err |-> NoErr]]
    /\ log' = log \cup {Five(i, j)}
    /\ calls' = Called(calls, [five |-> Five(i, j), slot |-> Slot(j)])
    /\ j' = j + 1
    /\ pc' = AfterGo(j, egErr)
    /\ UNCHANGED <<prefixes, manual, origin, i, egErr, bufs, tarBuf, runErr,
                   tarred, failed,
                   resets, gcs>>

\* getOne(five, three) returns: the response is in, and behind a 200 the
\* body has been copied into slot three.
GetOne(three) ==
    /\ task[three].st = "fetching"
    /\ \E resp \in Responses(Five(i, three)) :
          /\ bufs' = [bufs EXCEPT ![Slot(three)] = GetOneBuf(@, Five(i, three), resp)]
          /\ task' = [task EXCEPT ![three] = [st |-> "returned", err |-> GetOneErr(resp)]]
          /\ failed' = IF GetOneErr(resp) # NoErr
                       THEN failed \cup {Five(i, three)} ELSE failed
    /\ UNCHANGED <<prefixes, manual, origin, pc, i, j, sem, egErr, tarBuf,
                   runErr, tarred, log,
                   resets, gcs, calls>>

\* Mutant: a goroutine that keeps its token.
SemReleaseNone(n) == n

\* errgroup's done(): the goroutine gives its token back.
SemRelease(n) == n - 1

\* errgroup's errOnce: the first error is kept.
ErrOnce(cur, e) == IF cur = NoErr /\ e # NoErr THEN e ELSE cur

\* The goroutine ends: it wraps getOne's error, the errgroup keeps the
\* first one, and the token is released.
GoExit(three) ==
    /\ task[three].st = "returned"
    /\ egErr' = ErrOnce(egErr, IF task[three].err = NoErr THEN NoErr
                               ELSE WrapFetchErr(Five(i, three), task[three].err))
    /\ sem' = SemRelease(sem)
    /\ task' = [task EXCEPT ![three] = [st |-> "exited", err |-> @.err]]
    /\ UNCHANGED <<prefixes, manual, origin, pc, i, j, bufs, tarBuf, runErr,
                   tarred, log, failed,
                   resets, gcs, calls>>

\* Mutant: a Wait that does not wait.
WaitOverAtOnce(tk) == TRUE

\* Mutant: a Wait that returns as soon as one goroutine has failed.
WaitOverOnFirstErr(tk) ==
    \/ \A t \in Suffixes : tk[t].st \in {"idle", "exited"}
    \/ \E t \in Suffixes : tk[t].st = "exited" /\ tk[t].err # NoErr

\* eg.Wait returns once every goroutine started is gone.
WaitOver(tk) == \A t \in Suffixes : tk[t].st \in {"idle", "exited"}

\* Mutant: eg.Wait's error is dropped and the archive is built regardless.
AfterWaitIgnoresErr(e) == "tar"

\* Mutant: the failed prefix is skipped and run carries on.
AfterWaitSkips(e) == IF e # NoErr THEN "reset" ELSE "tar"

\* Where the main goroutine goes with eg.Wait's result: out of getChunk and
\* run with the error, or on to tar.
AfterWait(e) == IF e # NoErr THEN "failed" ELSE "tar"

\* eg.Wait returns.
Wait ==
    /\ pc = "wait"
    /\ WaitOver(task)
    /\ pc' = AfterWait(egErr)
    /\ runErr' = IF AfterWait(egErr) = "failed" THEN WrapChunkErr(i, egErr) ELSE runErr
    /\ UNCHANGED <<prefixes, manual, origin, i, j, task, sem, egErr, bufs,
                   tarBuf, tarred, log, failed,
                   resets, gcs, calls>>

\* tar(two): size, grow, and write every entry and the trailer.
TarWrite ==
    /\ pc = "tar"
    /\ tarBuf' = BufWrite(TarGrow(tarBuf, TarNeed(bufs)), TarBytes(i, bufs))
    /\ tarred' = Append(tarred, i)
    /\ pc' = "drain"
    /\ UNCHANGED <<prefixes, manual, origin, i, j, task, sem, egErr, bufs,
                   runErr, log, failed,
                   resets, gcs, calls>>

\* Mutant: run goes from getChunk past its resets.
AfterTarSkipsReset(m) == "gc"

\* tar and getChunk return nil and run goes on to its resets.
AfterTar(m) == "reset"

\* tar(two): io.Copy(io.Discard, d.tarBuf) reads the archive out.
TarDrain ==
    /\ pc = "drain"
    /\ tarBuf' = BufReset(tarBuf)
    /\ pc' = AfterTar(manual)
    /\ UNCHANGED <<prefixes, manual, origin, i, j, task, sem, egErr, bufs,
                   runErr, tarred, log, failed,
                   resets, gcs, calls>>

\* Mutant: the collector is forced whatever the flag says.
WantsGCAlways(m) == TRUE

\* run: if d.manual.
WantsGC(m) == m

\* run: every slot and the archive buffer are reset.
Reset ==
    /\ pc = "reset"
    /\ bufs' = [t \in Suffixes |-> BufReset(bufs[t])]
    /\ tarBuf' = BufReset(tarBuf)
    /\ resets' = resets + 1
    /\ pc' = IF WantsGC(manual) THEN "gc" ELSE "run"
    /\ i' = IF WantsGC(manual) THEN i ELSE i + 1
    /\ UNCHANGED <<prefixes, manual, origin, j, task, sem, egErr, runErr,
                   tarred, log, failed,
                   gcs, calls>>

\* run: runtime.GC(), with -manual.
GC ==
    /\ pc = "gc"
    /\ gcs' = gcs + 1
    /\ pc' = "run"
    /\ i' = i + 1
    /\ UNCHANGED <<prefixes, manual, origin, j, task, sem, egErr, bufs,
                   tarBuf, runErr, tarred, log, failed,
                   resets, calls>>

Next ==
    \/ MainPanic
    \/ MainStart
    \/ RunDone
    \/ GetChunk
    \/ Go
    \/ \E three \in Suffixes : GetOne(three)
    \/ \E three \in Suffixes : GoExit(three)
    \/ Wait
    \/ TarWrite
    \/ TarDrain
    \/ Reset
    \/ GC

Spec == Init /\ [][Next]_vars

\* ----------------------------------------------------------------- claims
\* The fetches that have started and not yet returned.
InFlight == Cardinality({t \in Suffixes : task[t].st = "fetching"})

\* The prefix of a key.
PrefixOf(key) == key \div SuffixSpan

\* C1: in every state of a fetch phase, at most `workers` getOne calls have
\* started and not yet returned.
C1_InFlightBounded == InFlight <= workers

\* C1: the limit binds: `workers` fetches are in flight and suffixes remain.
C1_Witness == pc = "go" /\ j <= MaxSuffix /\ InFlight = workers

\* C2: once a fetch of a prefix has failed, tar is never called for that
\* prefix, neither getChunk nor run goes on as if it had succeeded, and the
\* error run returns names (in hexadecimal) a key whose fetch failed.
C2_FailFast ==
    /\ \A k \in failed : \A n \in 1..Len(tarred) : tarred[n] # PrefixOf(k)
    /\ failed # {} => pc \in {"go", "wait", "failed"}
    /\ pc = "failed" => /\ runErr.cause \in {"transport", "status", "body"}
                        /\ ParseHex(runErr.key) \in failed

\* C2: run has returned the error of the one fetch of prefix 1 that failed,
\* its siblings having succeeded.
C2_Witness ==
    /\ pc = "failed"
    /\ i = 1
    /\ failed = {Five(1, 1)}
    /\ ParseHex(runErr.key) = Five(1, 1)

\* C3: when no fetch fails, run does not fail; a run that returns nil for a
\* prefix count in 1..256 has built one archive per prefix 0..P-1, in
\* increasing order; and each archive read back has one entry per suffix,
\* entry k being suffix k of the prefix.
C3_ArchivesPerPrefix ==
    /\ pc = "failed" => failed # {}
    /\ (pc = "done" /\ prefixes \in 1..KeySpacePrefixes)
          => tarred = [n \in 1..prefixes |-> n - 1]
    /\ pc = "drain" =>
          LET es == Untar(tarBuf.data)
          IN /\ Len(es) = MaxSuffix + 1
             /\ \A n \in 1..Len(es) :
                   /\ ParseHex(es[n].name) % SuffixSpan = n - 1
                   /\ PrefixOf(ParseHex(es[n].name)) = i

\* C3: a run over the whole key space has returned nil.
C3_Witness ==
    /\ pc = "done"
    /\ prefixes = KeySpacePrefixes
    /\ Len(tarred) = KeySpacePrefixes

\* C4: an archive read back has, for every suffix s, an entry named by the
\* five hexadecimal digits of the key i*4096+s, with the fixed mode, a size
\* equal to the length of slot s, and as body the whole body the origin
\* sent for that key and nothing else.
C4_RoundTrip ==
    pc = "drain" =>
        LET es == Untar(tarBuf.data)
        IN /\ Len(es) = MaxSuffix + 1
           /\ \A s \in Suffixes :
                LET e == es[s + 1]
                    key == i * SuffixSpan + s
                IN /\ Len(e.name) = 5
                   /\ ParseHex(e.name) = key
                   /\ e.mode = Mode
                   /\ e.size = BufLen(bufs[s])
                   /\ e.body = IF e.size = 0 THEN <<>>
                               ELSE <<[t |-> "data", key |-> key,
                                       size |-> e.size, n |-> e.size]>>

\* C4: the archive of the second prefix, over slots of three lengths.
C4_Witness ==
    /\ pc = "drain"
    /\ i = 1
    /\ BufLen(bufs[0]) = 0
    /\ BufLen(bufs[1]) = 1
    /\ BufLen(bufs[2]) = BlockSize

\* The length the claim gives for an archive over slots bs.
RECURSIVE PaddedSum(_, _)
PaddedSum(bs, k) ==
    IF k > MaxSuffix THEN 0
    ELSE BlockSize + RoundUp(BufLen(bs[k])) + PaddedSum(bs, k + 1)

\* C5: an archive's length is the sum over its entries of a 512-byte header
\* and the entry's length rounded up to 512, plus the 1024-byte trailer;
\* over records of 32000 bytes that is 512 + 63*512 per entry.
C5_ArchiveLength ==
    pc = "drain" =>
        /\ BufLen(tarBuf) = PaddedSum(bufs, 0) + TrailerSize
        /\ origin = "synthetic" =>
              BufLen(tarBuf) = (MaxSuffix + 1) * (BlockSize + 63 * BlockSize) + TrailerSize

\* C5: an archive over the generator's 32000-byte records.
C5_Witness ==
    /\ pc = "drain"
    /\ origin = "synthetic"
    /\ \A s \in Suffixes : BufLen(bufs[s]) = SynthSize

\* C6: while tar runs for a prefix, every fetch of the prefix has returned
\* without an error and its goroutine is gone.
C6_PhasesExclusive ==
    pc \in {"tar", "drain"} =>
        /\ sem = 0
        /\ \A t \in Suffixes : task[t] = [st |-> "exited", err |-> NoErr]

\* C6: tar is about to start for the second prefix.
C6_Witness == pc = "tar" /\ i = 1 /\ InFlight = 0

\* C7: once a fetch of prefix p has failed, run never returns nil, and no
\* key of a later prefix is requested and no archive of a later prefix is
\* built.
C7_RunAborts ==
    \A f \in failed :
        /\ pc # "done"
        /\ \A k \in log : PrefixOf(k) <= PrefixOf(f)
        /\ \A n \in 1..Len(tarred) : tarred[n] <= PrefixOf(f)

\* C7: run has failed at the first of two prefixes and requested nothing
\* of the second.
C7_Witness ==
    /\ pc = "failed"
    /\ prefixes = 2
    /\ i = 0
    /\ \A k \in log : PrefixOf(k) = 0

\* C8: the reset leaves every slot and the archive buffer with length zero
\* and the capacity it had; and every fetch phase starts on empty slots.
C8_ResetKeepsCapacity ==
    /\ [][pc = "reset" =>
            /\ \A s \in Suffixes : /\ BufLen(bufs'[s]) = 0
                                   /\ bufs'[s].cap = bufs[s].cap
            /\ BufLen(tarBuf') = 0
            /\ tarBuf'.cap = tarBuf.cap]_vars
    /\ [](pc = "go" /\ j = 0 => \A s \in Suffixes : BufLen(bufs[s]) = 0)

\* C8: the second fetch phase starts on empty slots of the first capacity.
C8_Witness ==
    /\ pc = "go"
    /\ j = 0
    /\ i = 1
    /\ \A s \in Suffixes : bufs[s] = NewBuffer(SlotCap)

\* C9: a prefix count past main's checks is in 1..256, and every key
\* requested has five hexadecimal digits and a prefix in 0x00..0xff.
C9_PrefixCountBounded ==
    /\ pc \notin {"main", "panic"} => prefixes \in 1..KeySpacePrefixes
    /\ \A k \in log : /\ Len(Sprintf0x(5, k)) = 5
                      /\ PrefixOf(k) \in 0..(KeySpacePrefixes - 1)

\* C10: the size tar computes from the slot lengths is the number of bytes
\* the archive writer then writes.
C10_ComputedSizeExact == pc = "drain" => TarNeed(bufs) = BufLen(tarBuf)

\* ------------------------------------------------------- getOne on its own
\* The whole body of `size` bytes the origin sends for `key`, as runs.
BodyOf(key, size) ==
    IF size = 0 THEN <<>>
    ELSE <<[t |-> "data", key |-> key, size |-> size, n |-> size]>>

\* getOne(five, three) called on a slot that is empty or still holds the
\* record of the prefix before: one fetch is in flight, for any suffix.
InitGetOne ==
    /\ prefixes = MaxPrefixes + 1
    /\ origin = "any"
    /\ manual \in BOOLEAN
    /\ pc = "go"
    /\ i \in 1..MaxPrefixes
    /\ \E three \in Suffixes :
          /\ j = three + 1
          /\ task = [t \in Suffixes |->
                        IF t = three THEN [st |-> "fetching", err |-> NoErr]
                        ELSE IF t < three THEN [st |-> "exited", err |-> NoErr]
                        ELSE Idle]
          /\ \E sz \in BodySizes :
                bufs = [t \in Suffixes |->
                           IF t = three
                           THEN [data |-> BodyOf(Five(i - 1, three), sz), cap |-> SlotCap]
                           ELSE NewBuffer(SlotCap)]
          /\ log = {Five(i, three)}
    /\ sem = 1
    /\ egErr = NoErr
    /\ tarBuf = NewBuffer(TarBufCap)
    /\ runErr = NoErr
    /\ tarred = <<>>
    /\ failed = {}
    /\ resets = i
    /\ gcs = IF manual THEN i ELSE 0
    /\ calls = [c \in {[five |-> k, slot |-> Slot(k % SuffixSpan)] : k \in log} |-> 1]

NextGetOne == \E three \in Suffixes : GetOne(three)

SpecGetOne == InitGetOne /\ [][NextGetOne]_vars

\* Every body size an origin of the model answers with.
AnySize == BodySizes \cup {SynthSize}

C12_PhaseOrder ==
    /\ [](/\ \A k \in log : PrefixOf(k) <= resets
          /\ pc \in {"go", "wait", "tar", "drain", "reset"} => resets = i
          /\ pc \in {"go", "wait", "tar"} => Len(tarred) = i
          /\ resets <= Len(tarred) /\ Len(tarred) <= resets + 1)
    /\ [][resets' # resets =>
             /\ resets' = resets + 1
             /\ pc = "reset"
             /\ InFlight = 0 /\ sem = 0
             /\ Len(tarred) = resets + 1
             /\ BufLen(tarBuf) = 0]_vars

\* C12: a fetch of the second prefix is in flight, behind one reset.
C12_Witness == pc = "go" /\ i = 1 /\ j = 1 /\ resets = 1 /\ InFlight = 1

\* C13 as stated: once a fetch of the prefix has failed, no fetch that had
\* not started is issued.
C13_NoDispatchAfterFailure ==
    [][failed # {} =>
          \A t \in Suffixes : ~(task[t].st = "idle" /\ task'[t].st = "fetching")]_vars

\* C13 amended: a failure cancels nothing: when getChunk returns its
\* error, every suffix of the prefix has been requested and has returned,
\* and no archive was built from the results.
C13_FailureCancelsNothing ==
    pc = "failed" =>
        /\ \A s \in Suffixes : Five(i, s) \in log /\ task[s].st = "exited"
        /\ \A n \in 1..Len(tarred) : tarred[n] # i

\* C13: every fetch but the last failed, and the last one, which could
\* start only once one of them was over, was still made and succeeded.
C13_Witness ==
    /\ pc = "failed"
    /\ \A t \in Suffixes : t < MaxSuffix => task[t].err # NoErr
    /\ task[MaxSuffix].err = NoErr
    /\ BufLen(bufs[MaxSuffix]) > 0

\* The main goroutine is scheduled, every fetch issued returns (the client
\* has a timeout), and every goroutine back from getOne ends.
Fairness ==
    /\ WF_vars(MainPanic \/ MainStart \/ RunDone \/ GetChunk \/ Go \/ Wait
               \/ TarWrite \/ TarDrain \/ Reset \/ GC)
    /\ \A three \in Suffixes : WF_vars(GetOne(three))
    /\ \A three \in Suffixes : WF_vars(GoExit(three))

FairSpec == Init /\ [][Next]_vars /\ Fairness

\* C14: every run ends, with nil behind the archive and the reset of the
\* last prefix or with an error; and a dispatch loop always gets to its
\* end, a failed fetch or not.
C14_Terminates ==
    /\ <>(pc \in {"panic", "done", "failed"})
    /\ [](pc = "done" => Len(tarred) = prefixes /\ resets = prefixes)
    /\ [](pc = "go" => <>(pc = "wait"))

\* C14: a run over several prefixes has returned nil.
C14_Witness ==
    /\ pc = "done"
    /\ origin = "any"
    /\ prefixes = MaxPrefixes
    /\ resets = MaxPrefixes

\* C15: runtime.GC is never called without -manual; with it, it has been
\* called once per prefix archived and reset, each call coming behind the
\* resets of its prefix with nothing in flight and all buffers empty.
C15_GCOnlyManual ==
    /\ [](/\ ~manual => gcs = 0
          /\ manual => gcs = (IF pc = "gc" THEN resets - 1 ELSE resets)
          /\ (manual /\ pc \in {"run", "go", "wait", "tar", "failed", "done"})
                => gcs = Len(tarred))
    /\ [][gcs' # gcs =>
             /\ gcs' = gcs + 1
             /\ manual
             /\ resets = i + 1
             /\ InFlight = 0 /\ sem = 0
             /\ \A s \in Suffixes : BufLen(bufs[s]) = 0
             /\ BufLen(tarBuf) = 0]_vars

\* C15: with -manual, the collector has run once behind the first prefix.
C15_Witness == manual /\ pc = "run" /\ i = 1 /\ gcs = 1 /\ resets = 1

\* C16: within one getChunk, getOne is never called twice with the same
\* key and slot, and always with a key of the prefix and slot = suffix of
\* the key; once the dispatch loop of prefix i is over, the calls are those
\* for i*4096+s into slot s, one per suffix s; and no two fetches in flight
\* were given the same slot.
C16_OncePerSuffix ==
    /\ \A c \in DOMAIN calls : /\ calls[c] = 1
                               /\ c.slot = c.five % SuffixSpan
                               /\ c.slot \in Suffixes
    /\ pc \in {"go", "wait"} => \A c \in DOMAIN calls : PrefixOf(c.five) = i
    /\ pc \in {"wait", "tar", "drain", "reset", "failed"} =>
          DOMAIN calls = {[five |-> i * SuffixSpan + s, slot |-> s] : s \in Suffixes}
    /\ \A t, u \in Suffixes :
          (t # u /\ task[t].st = "fetching" /\ task[u].st = "fetching") =>
              \A sl \in Suffixes :
                  ~(/\ [five |-> Five(i, t), slot |-> sl] \in DOMAIN calls
                    /\ [five |-> Five(i, u), slot |-> sl] \in DOMAIN calls)

\* C16: all of the second prefix is dispatched, with as many fetches
\* still in flight as the limit allows.
C16_Witness == pc = "wait" /\ i = 1 /\ InFlight = workers

\* C17: outside getChunk's dispatch and wait no goroutine of the errgroup
\* is running; when getChunk has returned, every suffix's goroutine is
\* gone; and no slot gains bytes outside getChunk's dispatch and wait.
C17_NoFetchOutlivesChunk ==
    /\ [](/\ pc \notin {"go", "wait"} =>
                /\ sem = 0
                /\ \A t \in Suffixes : task[t].st \in {"idle", "exited"}
          /\ pc \in {"failed", "reset"} =>
                \A t \in Suffixes : task[t].st = "exited")
    /\ [][(\E s \in Suffixes : BufLen(bufs'[s]) > BufLen(bufs[s]))
             => pc \in {"go", "wait"}]_vars

\* C17: getChunk has returned the error of the last suffix, with every
\* goroutine gone.
C17_Witness ==
    /\ pc = "failed"
    /\ sem = 0
    /\ ParseHex(egErr.key) = Five(i, MaxSuffix)
    /\ \A t \in Suffixes : task[t].st = "exited"

\* ------------------------------------------------- tar's growth on its own
\* The least size tar can compute: every slot empty.
NeedMin == (MaxSuffix + 1) * BlockSize + TrailerSize

\* The capacities the archive buffer is tried with: below, at and above
\* the sizes tar computes, and the one main gives it.
GrowCaps == {BlockSize, NeedMin - BlockSize, NeedMin, NeedMin + BlockSize,
             2 * NeedMin, TarBufCap}

\* tar(0) is entered with every slot fetched and an empty archive buffer.
InitGrow ==
    /\ prefixes = 1
    /\ origin = "any"
    /\ manual \in BOOLEAN
    /\ pc = "tar"
    /\ i = 0
    /\ j = MaxSuffix + 1
    /\ task = [t \in Suffixes |-> [st |-> "exited", err |-> NoErr]]
    /\ sem = 0
    /\ egErr = NoErr
    /\ \E sz \in [Suffixes -> BodySizes] :
          bufs = [t \in Suffixes |->
                     [data |-> BodyOf(Five(0, t), sz[t]), cap |-> SlotCap]]
    /\ \E c \in GrowCaps : tarBuf = NewBuffer(c)
    /\ runErr = NoErr
    /\ tarred = <<>>
    /\ log = {Five(0, t) : t \in Suffixes}
    /\ failed = {}
    /\ resets = 0
    /\ gcs = 0
    /\ calls = [c \in {[five |-> Five(0, t), slot |-> Slot(t)] : t \in Suffixes} |-> 1]

\* tar(): the size is computed and the buffer grown by the difference.
TarGrowStep ==
    /\ pc = "tar"
    /\ tarBuf' = TarGrow(tarBuf, TarNeed(bufs))
    /\ pc' = "grown"
    /\ UNCHANGED <<prefixes, manual, origin, i, j, task, sem, egErr, bufs,
                   runErr, tarred, log, failed, resets, gcs, calls>>

NextGrow == TarGrowStep

SpecGrow == InitGrow /\ [][NextGrow]_vars

\* C18: behind tar's growth step the archive buffer's capacity is at least
\* the size computed, when that size exceeded the capacity; and the buffer
\* is as it was when the capacity sufficed.
C18_GrowReachesNeed ==
    [][(pc = "tar" /\ pc' = "grown") =>
          IF TarNeed(bufs) > tarBuf.cap
          THEN tarBuf'.cap >= TarNeed(bufs)
          ELSE tarBuf' = tarBuf]_vars

====
